---- MODULE Spec2Model ----
(***************************************************************************)
(* Model of Importer.start(): the one-shot procedure that copies the       *)
(* issues of a GitHub repository into a Google Sheets tab.                 *)
(*                                                                         *)
(* The repository holds two versions of the procedure: the TypeScript      *)
(* source (src/unnamed/part_000) and a compiled Importer.js that was built *)
(* from an older revision.  The variable `build` says which one runs.      *)
(*                                                                         *)
(* Cells of the sheet are modelled by their text: a number is rendered by  *)
(* ToStr, and a JavaScript `undefined` by the marker Undefined.            *)
(***************************************************************************)
EXTENDS Integers, Sequences, FiniteSets, TLC

VARIABLES build, serviceAccountCredentials, documentId, sheetName,
          remoteIssues, perPage, priorSheet, sheet,
          pc, page, issuesData, idx, issueSheetsData, calls, error

vars == <<build, serviceAccountCredentials, documentId, sheetName,
          remoteIssues, perPage, priorSheet, sheet,
          pc, page, issuesData, idx, issueSheetsData, calls, error>>

(***************************************************************************)
(* Bounds of the model.                                                    *)
(***************************************************************************)
MaxIssues == 3

MaxPerPage == 2

(***************************************************************************)
(* JavaScript values.                                                      *)
(***************************************************************************)
Undefined == "<undefined>"

Digit == <<"0", "1", "2", "3", "4", "5", "6", "7", "8", "9">>

RECURSIVE ToStr(_)
ToStr(n) == IF n < 10 THEN Digit[n + 1] ELSE ToStr(n \div 10) \o Digit[(n % 10) + 1]

RECURSIVE Join(_, _)
Join(xs, sep) ==
    IF xs = <<>> THEN ""
    ELSE IF Len(xs) = 1 THEN xs[1]
    ELSE xs[1] \o sep \o Join(Tail(xs), sep)

Min(a, b) == IF a < b THEN a ELSE b

(***************************************************************************)
(* The remote repository: issues as the list endpoint returns them, each   *)
(* with the project-board data the metadata query returns for its node.    *)
(***************************************************************************)
NoMilestone == [present |-> FALSE, title |-> "", state |-> "", due_on |-> ""]

Sprint == [present |-> TRUE, title |-> "Sprint 1", state |-> "open", due_on |-> "2024-05-01"]

NoField == [present |-> FALSE, name |-> "", number |-> 0]

NoItems == [present |-> FALSE, nodes |-> <<>>]

EmptyItems == [present |-> TRUE, nodes |-> <<>>]

BareItems == [present |-> TRUE, nodes |-> <<[status |-> NoField, storyPoints |-> NoField]>>]

FullItems ==
    [present |-> TRUE,
     nodes |-> <<[status |-> [present |-> TRUE, name |-> "Done", number |-> 0],
                  storyPoints |-> [present |-> TRUE, name |-> "", number |-> 5]],
                 [status |-> [present |-> TRUE, name |-> "Todo", number |-> 0],
                  storyPoints |-> [present |-> TRUE, name |-> "", number |-> 8]]>>]

ZeroItems ==
    [present |-> TRUE,
     nodes |-> <<[status |-> [present |-> TRUE, name |-> "Todo", number |-> 0],
                  storyPoints |-> [present |-> TRUE, name |-> "", number |-> 0]]>>]

Templates ==
    { [state |-> "open", labels |-> <<>>, assignees |-> <<>>,
       milestone |-> NoMilestone, pull_request |-> FALSE, projectItems |-> NoItems],
      [state |-> "closed", labels |-> <<[name |-> "bug"], [name |-> "ui"]>>, assignees |-> <<[login |-> "ann"]>>,
       milestone |-> Sprint, pull_request |-> FALSE, projectItems |-> FullItems],
      [state |-> "open", labels |-> <<[name |-> "bug"]>>, assignees |-> <<[login |-> "bob"], [login |-> "cy"]>>,
       milestone |-> NoMilestone, pull_request |-> TRUE, projectItems |-> NoItems],
      [state |-> "open", labels |-> <<>>, assignees |-> <<[login |-> "ann"]>>,
       milestone |-> Sprint, pull_request |-> FALSE, projectItems |-> EmptyItems],
      [state |-> "open", labels |-> <<[name |-> "ui"]>>, assignees |-> <<>>,
       milestone |-> Sprint, pull_request |-> FALSE, projectItems |-> BareItems],
      [state |-> "closed", labels |-> <<>>, assignees |-> <<>>,
       milestone |-> NoMilestone, pull_request |-> FALSE, projectItems |-> ZeroItems] }

MkIssue(n, t) ==
    [number |-> n, state |-> t.state, title |-> "Task " \o ToStr(n),
     html_url |-> "https://github.com/o/r/issues/" \o ToStr(n),
     node_id |-> "I_" \o ToStr(n),
     labels |-> t.labels, assignees |-> t.assignees, milestone |-> t.milestone,
     pull_request |-> t.pull_request, projectItems |-> t.projectItems]

SeqsUpTo(S, n) == UNION { [1..k -> S] : k \in 0..n }

Repositories == { [i \in DOMAIN ts |-> MkIssue(i, ts[i])] : ts \in SeqsUpTo(Templates, MaxIssues) }

\* octokit.issues.listForRepo({state: "all", page}): the page-th chunk.
PageOf(p) ==
    SubSeq(remoteIssues, (p - 1) * perPage + 1, Min(p * perPage, Len(remoteIssues)))

(***************************************************************************)
(* The destination sheet: a sequence of rows, a blank row being <<>>.      *)
(***************************************************************************)
OldRow == <<"old">>

PriorSheets == { <<>>, <<OldRow>>, <<OldRow, <<>>, OldRow, OldRow>> }

RECURSIVE Trim(_)
Trim(s) == IF s # <<>> /\ s[Len(s)] = <<>> THEN Trim(SubSeq(s, 1, Len(s) - 1)) ELSE s

\* sheets.spreadsheets.values.clear({range: sheetName}): every cell of the tab.
ClearRange(s) == Trim([i \in DOMAIN s |-> <<>>])

RECURSIVE TableEnd(_, _)
TableEnd(s, i) == IF i < Len(s) /\ s[i + 1] # <<>> THEN TableEnd(s, i + 1) ELSE i

\* Variant: the values are written at A1, over whatever the range holds.
AppendRowsAtA1(s, values) ==
    Trim(values \o SubSeq(s, Len(values) + 1, Len(s)))

\* sheets.spreadsheets.values.append({range: sheetName + "!A1:1", values}):
\* the values go on the rows after the table that starts in row 1.
AppendRows(s, values) ==
    LET t == TableEnd(s, 0)
        n == Len(values)
    IN  Trim(SubSeq(s, 1, t) \o values \o SubSeq(s, t + n + 1, Len(s)))

(***************************************************************************)
(* Importer.start.                                                         *)
(***************************************************************************)
CredentialTexts == {"", "{\"client_email\":\"a@b\"}", "{client_email"}

\* JSON.parse(serviceAccountCredentials) returns rather than throws.
JSONParses(text) == text = "{\"client_email\":\"a@b\"}"

\* Variant: the sheet name is not tested.
MissingInputsTwo(c, d, s) == c = "" \/ d = ""

MissingInputs(c, d, s) == c = "" \/ d = "" \/ s = ""

\* Variant: a short page is taken for the last one.
MorePagesFull(data) == Len(data) = perPage

MorePages(data) == Len(data) # 0

\* Variant: the rows are formed before the sheet is cleared.
ThenFormFirst(p) ==
    CASE p = "start" -> "fetch"
      [] p = "fetch" -> "auth"
      [] p = "auth" -> "transform"
      [] p = "transform" -> "clear"
      [] p = "clear" -> "header"
      [] p = "header" -> "data"
      [] p = "data" -> "done"

\* The statement that follows stage p when p completes.
Then(p) ==
    CASE p = "start" -> "fetch"
      [] p = "fetch" -> "auth"
      [] p = "auth" -> "clear"
      [] p = "clear" -> "transform"
      [] p = "transform" -> "header"
      [] p = "header" -> "data"
      [] p = "data" -> "done"

\* Variant: a failed metadata query is swallowed and the run goes on.
CatchSkipQuery(p) == IF p = "transform" THEN "header" ELSE "done"

\* Variant: a failed clear is swallowed and the run goes on.
CatchSkipClear(p) == IF p = "clear" THEN "transform" ELSE "done"

\* Where control goes when stage p throws: the one catch block.
Catch(p) == "done"

Call(op, pg, id, ok) == [op |-> op, page |-> pg, id |-> id, ok |-> ok]

Init ==
    /\ build \in {"ts", "js"}
    /\ serviceAccountCredentials \in CredentialTexts
    /\ documentId \in {"", "doc1"}
    /\ sheetName \in {"", "Issues"}
    /\ remoteIssues \in Repositories
    /\ perPage \in 1..MaxPerPage
    /\ priorSheet \in PriorSheets
    /\ sheet = priorSheet
    /\ pc = "start"
    /\ page = 1
    /\ issuesData = <<>>
    /\ idx = 1
    /\ issueSheetsData = <<>>
    /\ calls = <<>>
    /\ error = "none"

CheckInputs ==
    /\ pc = "start"
    /\ IF MissingInputs(serviceAccountCredentials, documentId, sheetName)
       THEN /\ error' = "MissingInput"
            /\ pc' = Catch("start")
       ELSE /\ pc' = Then("start")
            /\ UNCHANGED error
    /\ UNCHANGED <<build, serviceAccountCredentials, documentId, sheetName,
                   remoteIssues, perPage, priorSheet, sheet,
                   page, issuesData, idx, issueSheetsData, calls>>

\* do { issuesPage = await listForRepo({page}); ... page++ } while (length)
FetchPage ==
    /\ pc = "fetch"
    /\ LET data == PageOf(page)
       IN  /\ calls' = Append(calls, Call("listForRepo", page, "", TRUE))
           /\ issuesData' = issuesData \o data
           /\ page' = page + 1
           /\ pc' = IF MorePages(data) THEN "fetch" ELSE Then("fetch")
    /\ UNCHANGED <<build, serviceAccountCredentials, documentId, sheetName,
                   remoteIssues, perPage, priorSheet, sheet,
                   idx, issueSheetsData, error>>

FetchPageFail ==
    /\ pc = "fetch"
    /\ calls' = Append(calls, Call("listForRepo", page, "", FALSE))
    /\ error' = "listForRepo"
    /\ pc' = Catch("fetch")
    /\ UNCHANGED <<build, serviceAccountCredentials, documentId, sheetName,
                   remoteIssues, perPage, priorSheet, sheet,
                   page, issuesData, idx, issueSheetsData>>

\* new google.auth.GoogleAuth({credentials: JSON.parse(...)}); google.sheets(...)
GoogleAuth ==
    /\ pc = "auth"
    /\ IF JSONParses(serviceAccountCredentials)
       THEN /\ pc' = Then("auth")
            /\ UNCHANGED error
       ELSE /\ error' = "JSON.parse"
            /\ pc' = Catch("auth")
    /\ UNCHANGED <<build, serviceAccountCredentials, documentId, sheetName,
                   remoteIssues, perPage, priorSheet, sheet,
                   page, issuesData, idx, issueSheetsData, calls>>

\* await sheets.spreadsheets.values.clear({spreadsheetId, range: sheetName})
ClearSheet ==
    /\ pc = "clear"
    /\ calls' = Append(calls, Call("clear", 0, "", TRUE))
    /\ sheet' = ClearRange(sheet)
    /\ pc' = Then("clear")
    /\ UNCHANGED <<build, serviceAccountCredentials, documentId, sheetName,
                   remoteIssues, perPage, priorSheet,
                   page, issuesData, idx, issueSheetsData, error>>

\* A rejected request leaves the sheet as it was.
ClearSheetFail ==
    /\ pc = "clear"
    /\ calls' = Append(calls, Call("clear", 0, "", FALSE))
    /\ error' = "clear"
    /\ pc' = Catch("clear")
    /\ UNCHANGED <<build, serviceAccountCredentials, documentId, sheetName,
                   remoteIssues, perPage, priorSheet, sheet,
                   page, issuesData, idx, issueSheetsData>>

LabelNames(value) == [i \in DOMAIN value.labels |-> value.labels[i].name]

AssigneeLogins(value) == [i \in DOMAIN value.assignees |-> value.assignees[i].login]

\* response.node.projectItems?.nodes?.[0]
HasFirstNode(items) == items.present /\ Len(items.nodes) >= 1

\* response.node.projectItems?.nodes?.[0]?.status?.name || ""
Status(items) ==
    IF HasFirstNode(items) /\ items.nodes[1].status.present
    THEN items.nodes[1].status.name
    ELSE ""

\* response.node.projectItems?.nodes?.[0]?.storyPoints?.number || ""
StoryPoints(items) ==
    IF HasFirstNode(items) /\ items.nodes[1].storyPoints.present
       /\ items.nodes[1].storyPoints.number # 0
    THEN ToStr(items.nodes[1].storyPoints.number)
    ELSE ""

\* Importer.js: ...?.[0]?.fieldValueByName?.number || "N/A"
StoryPointsJs(items) ==
    IF HasFirstNode(items) /\ items.nodes[1].storyPoints.present
       /\ items.nodes[1].storyPoints.number # 0
    THEN ToStr(items.nodes[1].storyPoints.number)
    ELSE "N/A"

MilestoneField(m, v) == IF m.present THEN v ELSE Undefined

\* The row pushed by the TypeScript source.
Row(value) ==
    << ToStr(value.number),
       value.state,
       "Issue",
       value.title,
       value.html_url,
       Join(LabelNames(value), ", "),
       Join(AssigneeLogins(value), ", "),
       MilestoneField(value.milestone, value.milestone.title),
       Status(value.projectItems),
       StoryPoints(value.projectItems),
       MilestoneField(value.milestone, value.milestone.due_on) >>

\* The row pushed by the compiled Importer.js.
RowJs(value) ==
    << ToStr(value.number),
       value.state,
       "Issue",
       value.title,
       value.html_url,
       Join(LabelNames(value), ", "),
       Join(AssigneeLogins(value), ", "),
       MilestoneField(value.milestone, value.milestone.title),
       MilestoneField(value.milestone, value.milestone.state),
       StoryPointsJs(value.projectItems),
       MilestoneField(value.milestone, value.milestone.due_on) >>

RowOf(b, value) == IF b = "ts" THEN Row(value) ELSE RowJs(value)

Header ==
    << "#", "Issue Status", "Type", "Title", "URI", "Labels", "Assignees",
       "Milestone", "Task Status", "Story Points", "Deadline" >>

HeaderJs ==
    << "#", "Status", "Type", "Title", "URI", "Labels", "Assignees",
       "Milestone", "Status", "Story Points", "Deadline" >>

HeaderOf(b) == IF b = "ts" THEN Header ELSE HeaderJs

\* Variant: pull requests are not skipped.
IgnoredNever(value) == FALSE

\* if (value.pull_request) continue;
Ignored(value) == value.pull_request

\* The metadata query is awaited before the pull-request test.
Queried(value) == TRUE

\* One iteration of: for (const value of issuesData) { ... }
Enrich ==
    /\ pc = "transform"
    /\ idx <= Len(issuesData)
    /\ LET value == issuesData[idx]
       IN  /\ calls' = IF Queried(value)
                       THEN Append(calls, Call("graphql", 0, value.node_id, TRUE))
                       ELSE calls
           /\ issueSheetsData' = IF Ignored(value)
                                 THEN issueSheetsData
                                 ELSE Append(issueSheetsData, RowOf(build, value))
    /\ idx' = idx + 1
    /\ UNCHANGED <<build, serviceAccountCredentials, documentId, sheetName,
                   remoteIssues, perPage, priorSheet, sheet,
                   pc, page, issuesData, error>>

EnrichFail ==
    /\ pc = "transform"
    /\ idx <= Len(issuesData)
    /\ Queried(issuesData[idx])
    /\ calls' = Append(calls, Call("graphql", 0, issuesData[idx].node_id, FALSE))
    /\ error' = "graphql"
    /\ pc' = Catch("transform")
    /\ UNCHANGED <<build, serviceAccountCredentials, documentId, sheetName,
                   remoteIssues, perPage, priorSheet, sheet,
                   page, issuesData, idx, issueSheetsData>>

\* The loop is exhausted; the rows are logged.
FormDone ==
    /\ pc = "transform"
    /\ idx > Len(issuesData)
    /\ pc' = Then("transform")
    /\ UNCHANGED <<build, serviceAccountCredentials, documentId, sheetName,
                   remoteIssues, perPage, priorSheet, sheet,
                   page, issuesData, idx, issueSheetsData, calls, error>>

AppendHeader ==
    /\ pc = "header"
    /\ calls' = Append(calls, Call("append", 0, "header", TRUE))
    /\ sheet' = AppendRows(sheet, <<HeaderOf(build)>>)
    /\ pc' = Then("header")
    /\ UNCHANGED <<build, serviceAccountCredentials, documentId, sheetName,
                   remoteIssues, perPage, priorSheet,
                   page, issuesData, idx, issueSheetsData, error>>

AppendHeaderFail ==
    /\ pc = "header"
    /\ calls' = Append(calls, Call("append", 0, "header", FALSE))
    /\ error' = "append header"
    /\ pc' = Catch("header")
    /\ UNCHANGED <<build, serviceAccountCredentials, documentId, sheetName,
                   remoteIssues, perPage, priorSheet, sheet,
                   page, issuesData, idx, issueSheetsData>>

AppendData ==
    /\ pc = "data"
    /\ calls' = Append(calls, Call("append", 0, "data", TRUE))
    /\ sheet' = AppendRows(sheet, issueSheetsData)
    /\ pc' = Then("data")
    /\ UNCHANGED <<build, serviceAccountCredentials, documentId, sheetName,
                   remoteIssues, perPage, priorSheet,
                   page, issuesData, idx, issueSheetsData, error>>

AppendDataFail ==
    /\ pc = "data"
    /\ calls' = Append(calls, Call("append", 0, "data", FALSE))
    /\ error' = "append data"
    /\ pc' = Catch("data")
    /\ UNCHANGED <<build, serviceAccountCredentials, documentId, sheetName,
                   remoteIssues, perPage, priorSheet, sheet,
                   page, issuesData, idx, issueSheetsData>>

Next ==
    \/ CheckInputs
    \/ FetchPage
    \/ FetchPageFail
    \/ GoogleAuth
    \/ ClearSheet
    \/ ClearSheetFail
    \/ Enrich
    \/ EnrichFail
    \/ FormDone
    \/ AppendHeader
    \/ AppendHeaderFail
    \/ AppendData
    \/ AppendDataFail

Spec == Init /\ [][Next]_vars

(***************************************************************************)
(* Properties.                                                             *)
(***************************************************************************)
IsSheetCall(c) == c.op \in {"clear", "append"}

IsAppend(c) == c.op = "append"

IsQuery(c) == c.op = "graphql"

IsList(c) == c.op = "listForRepo"

SheetCalls == SelectSeq(calls, IsSheetCall)

AppendCalls == SelectSeq(calls, IsAppend)

QueryCalls == SelectSeq(calls, IsQuery)

ListCalls == SelectSeq(calls, IsList)

NotPullRequest(v) == ~v.pull_request

NonPR(s) == SelectSeq(s, NotPullRequest)

IsPullRequest(v) == v.pull_request

PullRequests(s) == SelectSeq(s, IsPullRequest)

Succeeded == pc = "done" /\ error = "none"

\* C1: after a successful run the sheet is the header row followed by one
\* row per fetched issue that is not a pull request, in fetch order; nothing
\* of the prior content remains and the row count is
\* (fetched issues - pull requests) + 1.
C1_SheetAfterSuccess ==
    Succeeded =>
        LET kept == NonPR(issuesData)
        IN  /\ issuesData = remoteIssues
            /\ Len(sheet) = (Len(issuesData) - Len(PullRequests(issuesData))) + 1
            /\ sheet[1] = HeaderOf(build)
            /\ \A i \in DOMAIN kept :
                  /\ sheet[i + 1][1] = ToStr(kept[i].number)
                  /\ sheet[i + 1][4] = kept[i].title
            /\ \A i \in DOMAIN sheet : sheet[i] # OldRow /\ sheet[i] # <<>>

C1_Witness ==
    /\ Succeeded
    /\ Len(priorSheet) = 4
    /\ Len(sheet) = 3
    /\ PullRequests(issuesData) # <<>>

\* C2: the rows built by the transform loop are exactly the rows of the
\* issues processed so far whose pull_request flag is unset, in the same
\* order; their number is issue count minus pull-request count.
C2_RowsAreNonPullRequests ==
    LET seen == SubSeq(issuesData, 1, idx - 1)
        kept == NonPR(seen)
    IN  /\ Len(issueSheetsData) = Len(seen) - Len(PullRequests(seen))
        /\ Len(issueSheetsData) = Len(kept)
        /\ \A i \in DOMAIN kept : issueSheetsData[i][1] = ToStr(kept[i].number)
        /\ (pc \in {"header", "data"} \/ Succeeded) => seen = issuesData

C2_Witness ==
    /\ pc = "header"
    /\ Len(issuesData) = 3
    /\ issuesData[2].pull_request
    /\ Len(issueSheetsData) = 2

AnyInputEmpty == serviceAccountCredentials = "" \/ documentId = "" \/ sheetName = ""

\* C3: when one of the three required inputs is empty the run is marked
\* failed and makes no network call at all.
C3_MissingInputNoCalls ==
    AnyInputEmpty =>
        /\ calls = <<>>
        /\ sheet = priorSheet
        /\ pc \in {"start", "done"}
        /\ pc = "done" => error = "MissingInput"

C3_Witness ==
    /\ pc = "done"
    /\ error = "MissingInput"
    /\ sheetName = ""
    /\ serviceAccountCredentials # ""
    /\ documentId # ""

\* C4: a failed metadata query is the last call of the run: no later query,
\* no append of the header or of the rows, the run is marked failed, and the
\* only sheet operation that happened is the clear.
C4_QueryFailureAborts ==
    \A i \in DOMAIN calls :
        (calls[i].op = "graphql" /\ ~calls[i].ok) =>
            /\ i = Len(calls)
            /\ pc = "done"
            /\ error = "graphql"
            /\ AppendCalls = <<>>
            /\ \A j \in DOMAIN SheetCalls : SheetCalls[j].op = "clear"
            /\ sheet = <<>>

C4_Witness ==
    /\ error = "graphql"
    /\ Len(issuesData) = 3
    /\ idx = 2
    /\ Len(QueryCalls) = 2
    /\ priorSheet # <<>>

\* The number of non-empty pages the source returns.
NonEmptyPages == Cardinality({p \in 1..(MaxIssues + 1) : PageOf(p) # <<>>})

RECURSIVE ConcatPages(_)
ConcatPages(n) == IF n = 0 THEN <<>> ELSE ConcatPages(n - 1) \o PageOf(n)

FetchFinished == pc \notin {"start", "fetch"} /\ error \notin {"MissingInput", "listForRepo"}

\* C5: for a source with N non-empty pages the fetch loop requests pages
\* 1, 2, ..., N+1 in that order and none after the first empty page; the
\* accumulated issues are the concatenation of pages 1..N.
C5_Pagination ==
    /\ \A i \in DOMAIN ListCalls : ListCalls[i].page = i
    /\ Len(ListCalls) <= NonEmptyPages + 1
    /\ FetchFinished =>
          /\ Len(ListCalls) = NonEmptyPages + 1
          /\ issuesData = ConcatPages(NonEmptyPages)

C5_Witness ==
    /\ pc = "auth"
    /\ NonEmptyPages = 2
    /\ Len(ListCalls) = 3
    /\ Len(issuesData) = 3

\* C6 as stated: the clear is not invoked until every fetched issue has been
\* enriched and transformed into its row.
C6_ClearAfterTransform ==
    (\E i \in DOMAIN calls : calls[i].op = "clear") => idx > Len(issuesData)

Rank(c) ==
    CASE c.op = "listForRepo" -> 1
      [] c.op = "clear" -> 2
      [] c.op = "graphql" -> 3
      [] c.op = "append" /\ c.id = "header" -> 4
      [] c.op = "append" /\ c.id = "data" -> 5

\* C6 amended: the run is linear in the order fetch, clear-destination,
\* transform, write-header, write-rows; the clear is invoked once every page
\* is fetched and before any issue is enriched, and the header is not
\* appended until every fetched issue has been enriched and transformed.
C6_LinearOrder ==
    /\ \A i, j \in DOMAIN calls : i < j => Rank(calls[i]) <= Rank(calls[j])
    /\ \A i, j \in DOMAIN calls :
          (i < j /\ Rank(calls[i]) = Rank(calls[j])) => Rank(calls[i]) \in {1, 3}
    /\ \A i \in DOMAIN calls :
          /\ calls[i].op = "clear" => issuesData = remoteIssues
          /\ calls[i].op = "graphql" =>
                \E j \in 1..(i - 1) : calls[j].op = "clear" /\ calls[j].ok
          /\ calls[i].op = "append" =>
                /\ idx > Len(issuesData)
                /\ Len(QueryCalls) = Len(issuesData)
                /\ Len(issueSheetsData) = Len(NonPR(issuesData))
          /\ (calls[i].op = "append" /\ calls[i].id = "data") =>
                \E j \in 1..(i - 1) :
                    calls[j].op = "append" /\ calls[j].id = "header" /\ calls[j].ok

C6_Witness ==
    /\ Succeeded
    /\ Len(issuesData) = 3
    /\ Len(calls) >= 7

IssueOfNode(id) == CHOOSE v \in {remoteIssues[i] : i \in DOMAIN remoteIssues} : v.node_id = id

\* C7: one metadata query per fetched issue that is not a pull request, in
\* fetch order, none for a pull request; in a successful run the number of
\* queries equals the number of data rows written.
C7_QueriesSkipPullRequests ==
    /\ \A i \in DOMAIN QueryCalls : ~IssueOfNode(QueryCalls[i].id).pull_request
    /\ Succeeded => Len(QueryCalls) = Len(issueSheetsData)

IssueOfRow(row) == CHOOSE v \in {issuesData[i] : i \in DOMAIN issuesData} : ToStr(v.number) = row[1]

NoLinkedItem(v) ==
    \/ ~v.projectItems.present
    \/ v.projectItems.nodes = <<>>
    \/ /\ ~v.projectItems.nodes[1].status.present
       /\ ~v.projectItems.nodes[1].storyPoints.present

EmptyOrAbsent(cell) == cell \in {"", Undefined}

\* C8: the row of an issue whose metadata reports no linked project item has
\* an empty or absent value in the status column and in the story-points
\* column.
C8_NoItemEmptyFields ==
    \A i \in DOMAIN issueSheetsData :
        NoLinkedItem(IssueOfRow(issueSheetsData[i])) =>
            /\ EmptyOrAbsent(issueSheetsData[i][9])
            /\ EmptyOrAbsent(issueSheetsData[i][10])

FirstItemStatus(v) ==
    IF ~NoLinkedItem(v) /\ v.projectItems.nodes[1].status.present
    THEN v.projectItems.nodes[1].status.name
    ELSE ""

\* C9: every data row has the 11 columns number, state, "Issue", title, url,
\* labels, assignees, milestone title, project status of the first linked
\* item, story points of the first linked item, milestone due date; the
\* header has 11 columns too.
C9_RowLayout ==
    /\ Len(HeaderOf(build)) = 11
    /\ \A i \in DOMAIN issueSheetsData :
          LET row == issueSheetsData[i]
              v == IssueOfRow(row)
          IN  /\ Len(row) = 11
              /\ row[1] = ToStr(v.number)
              /\ row[2] = v.state
              /\ row[3] = "Issue"
              /\ row[4] = v.title
              /\ row[5] = v.html_url
              /\ row[6] = Join(LabelNames(v), ", ")
              /\ row[7] = Join(AssigneeLogins(v), ", ")
              /\ row[8] = (IF v.milestone.present THEN v.milestone.title ELSE Undefined)
              /\ row[9] = FirstItemStatus(v)
              /\ row[10] \in {"", "N/A"} \cup
                     {ToStr(v.projectItems.nodes[k].storyPoints.number) :
                          k \in DOMAIN v.projectItems.nodes \cap {1}}
              /\ row[11] = (IF v.milestone.present THEN v.milestone.due_on ELSE Undefined)

\* C10: a failed run leaves the sheet as the last successful sheet operation
\* left it: a failure at input validation, at a page request or at the
\* credential parse invokes neither clear nor append and keeps the prior
\* content; a failed clear is followed by no append; a failed header append
\* is not followed by the append of the rows.
C10_FailureLeavesLastState ==
    /\ error # "none" => pc = "done"
    /\ \A i \in DOMAIN calls : ~calls[i].ok => i = Len(calls)
    /\ SheetCalls = <<>> => sheet = priorSheet
    /\ error \in {"MissingInput", "listForRepo", "JSON.parse"} =>
          /\ SheetCalls = <<>>
          /\ sheet = priorSheet
    /\ error = "clear" =>
          /\ AppendCalls = <<>>
          /\ sheet = priorSheet
    /\ error = "graphql" => sheet = <<>>
    /\ error = "append header" =>
          /\ Len(AppendCalls) = 1
          /\ sheet = <<>>
    /\ error = "append data" => sheet = <<HeaderOf(build)>>

C10_Witness ==
    /\ error = "append header"
    /\ priorSheet # <<>>
    /\ issuesData # <<>>
====
